---- MODULE Spec2Model ----
(***************************************************************************)
(* Model of the REE prospectivity pipeline (geo-explore/ree_prospecting):  *)
(* feature stack assembly, label synthesis, spatial block cross-validation,*)
(* random-forest training and full-grid prediction.                        *)
(*                                                                         *)
(* Arrays are TLA+ sequences (position p holds the numpy element p-1).     *)
(* Cell, row, column, block and sample indices are kept zero-based as in   *)
(* the source.  A float is a record: Fin(n), NaN, PosInf or NegInf.        *)
(***************************************************************************)
EXTENDS Integers, Sequences, FiniteSets, TLC

\* ---------------------------------------------------------------- bounds
MaxPoints == 2     \* at most this many known occurrences
MaxNaN == 1        \* at most this many no-data cells in the elevation grid
MaxK == 3          \* spatial_block_k explored: 1..MaxK
MaxRuns == 2       \* pipeline runs on the same inputs
MaxRowsPG == 2     \* rows of the tables handed to predict_full_grid alone
MaxRasters == 3    \* rasters handed to the feature-stack assembly alone
MaxClassRows == 7  \* rows per class of the tables handed to train_rf alone

VARIABLES
    pc,             \* position of main(): the step to run next
    steps,          \* the steps of the current run completed so far, in order
    run_log,        \* one record per finished run of main() on these inputs
    cfg,            \* CFG.model: grid_resolution_m, random_state, spatial_block_k, smote_enabled
    dem_grid_utm,   \* the reprojected elevation grid
    mrds_utm,       \* the occurrence points, as flat cell indices
    df_features,    \* FeatureTable: column name -> flat column
    feature_names,
    pos_mask, excl_mask, neg_indices, sampled_idx, y, labeled_mask,
    blocks, folds,  \* spatial_block_cv: block id per labeled row, folds of block ids
    fold_i,         \* spatial_block_cv: the fold the loop is at
    fold_log,       \* spatial_block_cv: what each fold of the loop did
    reports, cms,   \* CVResult
    fit_calls,      \* every classifier fit of the run: who called it, on what
    warnings,       \* logger.warning records
    result,         \* TrainResult of train_rf, wrapped in a sequence (empty: none)
    proba,          \* output of predict_full_grid
    outputs,        \* files written
    error,          \* the exception that ended the run ("" if none)
    pg_X, pg_out,   \* predict_full_grid on a table of its own: input, imputed matrix
    fs_in, fs_out,  \* the feature-stack assembly on rasters of its own: input, outcome
    tr_in, tr_out,  \* train_rf on a table of its own: arguments, outcome
    hs_in, hs_out,  \* top_hotspots_to_geojson on a surface of its own: arguments, outcome
    bl_in, bl_out,  \* assign_spatial_blocks and the fold split on cells of their own
    routes_job_storage,  \* api/routes.py: job_storage
    main_job_storage,    \* api/main.py: job_storage
    background_tasks,    \* the background task of every job: where it is
    responses            \* the HTTP responses sent so far

vars == <<pc, steps, run_log, cfg, dem_grid_utm, mrds_utm, df_features, feature_names,
          pos_mask, excl_mask, neg_indices, sampled_idx, y, labeled_mask,
          blocks, folds, fold_i, fold_log, reports, cms, fit_calls, warnings,
          result, proba, outputs, error, pg_X, pg_out, fs_in, fs_out, tr_in, tr_out,
          hs_in, hs_out, bl_in, bl_out,
          routes_job_storage, main_job_storage, background_tasks, responses>>

\* ---------------------------------------------------------------- floats
\* v / d is the value of a finite float (d is 1 or 2)
Fin(n) == [k |-> "fin", v |-> n, d |-> 1]
NaN == [k |-> "nan", v |-> 0, d |-> 1]
PosInf == [k |-> "inf", v |-> 1, d |-> 1]
NegInf == [k |-> "inf", v |-> -1, d |-> 1]

isfinite(x) == x.k = "fin"
isnan(x) == x.k = "nan"

\* ---------------------------------------------------------- numpy helpers
Range(s) == {s[p] : p \in DOMAIN s}

RECURSIVE SumSeq(_)
SumSeq(s) == IF s = <<>> THEN 0 ELSE Head(s) + SumSeq(Tail(s))

\* number of TRUE entries of a boolean array (mask.sum())
MaskSum(mask) == Cardinality({p \in DOMAIN mask : mask[p]})

\* position of the q-th TRUE entry of a boolean array
NthTrue(mask, q) ==
    CHOOSE p \in DOMAIN mask : mask[p] /\ Cardinality({p2 \in 1..p : mask[p2]}) = q

\* boolean indexing a[mask]: the selected elements, in order
Select(a, mask) == [q \in 1..MaskSum(mask) |-> a[NthTrue(mask, q)]]

\* np.where(mask)[0]: the zero-based indices of the TRUE entries, ascending
Where(mask) == [q \in 1..MaskSum(mask) |-> NthTrue(mask, q) - 1]

\* ascending sort of a finite set of integers (np.unique on integer data)
RECURSIVE SortSet(_)
SortSet(S) ==
    IF S = {} THEN <<>>
    ELSE LET m == CHOOSE x \in S : \A z \in S : x <= z
         IN <<m>> \o SortSet(S \ {m})

unique(a) == SortSet(Range(a))

Min(S) == CHOOSE x \in S : \A z \in S : x <= z
Max(S) == CHOOSE x \in S : \A z \in S : x >= z

\* ------------------------------------------------------------ raster grid
\* RasterGrid.data: a sequence of H rows of W values; transform.a = -e = res
Height(g) == Len(g)
Width(g) == Len(g[1])

\* arr.reshape(-1) in Fortran (column-major) order: columns one after another
Reshape1D_F(arr) ==
    [p \in 1..(Height(arr) * Width(arr)) |->
        arr[((p - 1) % Height(arr)) + 1][((p - 1) \div Height(arr)) + 1]]

\* arr.reshape(-1): C order, the rows of the array one after another
RECURSIVE Reshape1D(_)
Reshape1D(arr) == IF arr = <<>> THEN <<>> ELSE Head(arr) \o Reshape1D(Tail(arr))

\* np.indices((h, w)): the row-index grid and the column-index grid
indices(h, w) ==
    [rr |-> [r \in 1..h |-> [c \in 1..w |-> r - 1]],
     cc |-> [r \in 1..h |-> [c \in 1..w |-> c - 1]]]

\* flat.reshape(h, w)
Reshape2D(flat, h, w) == [r \in 1..h |-> [c \in 1..w |-> flat[(r - 1) * w + c]]]

\* --------------------------------------------------------- terrain features
\* scipy.ndimage boundary mode 'reflect' for a 3-wide kernel
Reflect(i, n) == IF i < 1 THEN 1 ELSE IF i > n THEN n ELSE i

ZAt(z, r, c) == z[Reflect(r, Height(z))][Reflect(c, Width(z))]

\* a no-data value anywhere in the 3x3 window makes the Sobel response NaN
WindowNaN(z, r, c) ==
    \E dr \in -1..1, dc \in -1..1 : ~isfinite(ZAt(z, r + dr, c + dc))

Smooth(d) == IF d = 0 THEN 2 ELSE 1

\* sobel(z, axis=1): derivative along columns, smoothing along rows
SobelX(z, r, c) ==
    SumSeq([q \in 1..3 |->
        Smooth(q - 2) * (ZAt(z, r + q - 2, c + 1).v - ZAt(z, r + q - 2, c - 1).v)])

\* sobel(z, axis=0): derivative along rows, smoothing along columns
SobelY(z, r, c) ==
    SumSeq([q \in 1..3 |->
        Smooth(q - 2) * (ZAt(z, r + 1, c + q - 2).v - ZAt(z, r - 1, c + q - 2).v)])

\* squared gradient magnitude; with square pixels (px = py) slope_deg and the
\* unscaled edge magnitude are increasing functions of it
Mag2(z, r, c) == SobelX(z, r, c) * SobelX(z, r, c) + SobelY(z, r, c) * SobelY(z, r, c)

Sign(n) == IF n > 0 THEN 1 ELSE IF n < 0 THEN -1 ELSE 0

\* compute_terrain_attributes: slope is kept as its gradient key, aspect as
\* the direction class of (dzdy, -dzdx)
compute_terrain_attributes(dem) ==
    [slope |-> [r \in 1..Height(dem) |-> [c \in 1..Width(dem) |->
                  IF WindowNaN(dem, r, c) THEN NaN ELSE Fin(Mag2(dem, r, c))]],
     aspect |-> [r \in 1..Height(dem) |-> [c \in 1..Width(dem) |->
                  IF WindowNaN(dem, r, c) THEN NaN
                  ELSE Fin(3 * (Sign(SobelY(dem, r, c)) + 1)
                           + Sign(0 - SobelX(dem, r, c)) + 1)]]]

\* simple_edge_density: gradient magnitude shifted by its nanmin (the min-max
\* scaling keeps the order and the finiteness of the entries)
simple_edge_density(dem) ==
    LET fin == {<<r, c>> \in (1..Height(dem)) \X (1..Width(dem)) : ~WindowNaN(dem, r, c)}
        lo == IF fin = {} THEN 0 ELSE Min({Mag2(dem, rc[1], rc[2]) : rc \in fin})
    IN [r \in 1..Height(dem) |-> [c \in 1..Width(dem) |->
            IF WindowNaN(dem, r, c) THEN NaN ELSE Fin(Mag2(dem, r, c) - lo)]]

\* rasterize_points_distance: distance to the nearest occurrence cell, kept
\* squared (dist_px^2 * px_size^2); points is a set of zero-based flat cells
rasterize_points_distance(points, template, res) ==
    LET w == Width(template)
        D2(r, c, pt) == ((r - 1) - (pt \div w)) * ((r - 1) - (pt \div w))
                        + ((c - 1) - (pt % w)) * ((c - 1) - (pt % w))
    IN [r \in 1..Height(template) |-> [c \in 1..w |->
            Fin(Min({D2(r, c, pt) : pt \in points}) * res * res)]]

\* the proximity feature is always there, zero-filled when there is no point
FeatureList_zero_filled(dem, points, res) ==
    LET ta == compute_terrain_attributes(dem) IN
    << <<ta.slope, "slope_deg">>,
       <<ta.aspect, "aspect_deg">>,
       <<simple_edge_density(dem), "edge_density">>,
       <<IF points # {} THEN rasterize_points_distance(points, dem, res)
         ELSE [r \in 1..Height(dem) |-> [c \in 1..Width(dem) |-> Fin(0)]],
         "dist_to_ree_m">> >>

\* the (array, name) list of build_feature_stack
FeatureList(dem, points, res) ==
    LET ta == compute_terrain_attributes(dem) IN
    << <<ta.slope, "slope_deg">>,
       <<ta.aspect, "aspect_deg">>,
       <<simple_edge_density(dem), "edge_density">> >>
    \o (IF points # {} THEN << <<rasterize_points_distance(points, dem, res), "dist_to_ree_m">> >>
        ELSE <<>>)

\* build_feature_stack, lines 98-109: the (array, name) pairs flattened into
\* the columns of one table (df maps a column name to its flat column) next
\* to the row and col columns of the (h, w) grid.  np.vstack raises when the
\* flattened arrays differ in length, the column assignment when their
\* length is not h * w
assemble_features(features, h, w) ==
    LET rows == [q \in DOMAIN features |-> Reshape1D(features[q][1])]
        names == [q \in DOMAIN features |-> features[q][2]]
        ix == indices(h, w)
        cols == [nm \in Range(names) |->
                    rows[CHOOSE q \in DOMAIN features : features[q][2] = nm]]
    IN IF \E q \in DOMAIN rows : Len(rows[q]) # Len(rows[1])
       THEN [error |-> "ValueError", df |-> <<>>, names |-> <<>>]
       ELSE IF Len(rows[1]) # h * w
       THEN [error |-> "ValueError", df |-> <<>>, names |-> <<>>]
       ELSE [error |-> "",
             df |-> cols @@ [nm \in {"row", "col"} |->
                                IF nm = "row" THEN Reshape1D(ix.rr) ELSE Reshape1D(ix.cc)],
             names |-> names]

\* build_feature_stack: the feature rasters of one DEM, assembled
build_feature_stack(dem, points, res) ==
    assemble_features(FeatureList(dem, points, res), Height(dem), Width(dem))

\* the whole table is converted, index columns included
ToMatrix_all_columns(df, names) ==
    LET all == names \o <<"row", "col">>
    IN [p \in DOMAIN df[names[1]] |->
          [q \in DOMAIN all |->
              IF q <= Len(names) THEN df[all[q]][p] ELSE Fin(df[all[q]][p])]]

\* df.loc[mask, feature_names].to_numpy() / df[feature_names].to_numpy():
\* one sequence of feature values per table row
ToMatrix(df, names) ==
    [p \in DOMAIN df[names[1]] |-> [q \in DOMAIN names |-> df[names[q]][p]]]

\* ------------------------------------------------------- seeded generator
\* np.random.RandomState(seed): the Mersenne Twister stream is represented by
\* a linear congruential stream; what the pipeline relies on is that the
\* stream is a function of the seed alone
RandomState_unseeded(seed) == (seed + 12345 * Len(run_log)) % 65537

RandomState(seed) == seed % 65537

NextRng(st) == (75 * st + 74) % 65537

Swap(x, p, q) == [x EXCEPT ![p] = x[q], ![q] = x[p]]

\* rng.shuffle(x): Fisher-Yates from the last position down, one draw in
\* [0, i] for every i; returns the shuffled array and the generator state.
\* ShuffleRange does the steps i = hi down to lo, the upper half of them
\* first (upper holds its outcome), then the lower half on that outcome
RECURSIVE ShuffleRange(_, _, _, _)
ShuffleRange(x, hi, lo, st) ==
    IF hi < lo THEN [arr |-> x, st |-> st]
    ELSE IF hi = lo
    THEN LET s2 == NextRng(st)
         IN [arr |-> Swap(x, hi + 1, (s2 % (hi + 1)) + 1), st |-> s2]
    ELSE LET mid == (hi + lo) \div 2
         IN CHOOSE out \in {ShuffleRange(upper.arr, mid, lo, upper.st) :
                              upper \in {ShuffleRange(x, hi, mid + 1, st)}} : TRUE

shuffle(x, st) == ShuffleRange(x, Len(x) - 1, 1, st)

\* sampling with replacement: size independent draws from a
RECURSIVE choice_replace(_, _, _)
choice_replace(a, size, st) ==
    IF size = 0 THEN <<>>
    ELSE <<a[(NextRng(st) % Len(a)) + 1]>> \o choice_replace(a, size - 1, NextRng(st))

\* rng.choice(a, size=size, replace=False): a[permutation(len(a))[:size]]
choice(a, size, st) ==
    LET perm == shuffle([p \in 1..Len(a) |-> p - 1], st).arr
    IN [q \in 1..size |-> a[perm[q] + 1]]

\* ----------------------------------------------------------- label synthesis
positive_radius == 300
exclusion_radius == 1000

\* rasterize(buffer(radius)): cells whose centre lies within radius of a point
\* (points sit on cell centres; res is the pixel size in metres)
rasterize_buffer(points, radius, h, w, res) ==
    [r \in 1..h |-> [c \in 1..w |->
        \E pt \in points :
            (((r - 1) - (pt \div w)) * ((r - 1) - (pt \div w))
             + ((c - 1) - (pt % w)) * ((c - 1) - (pt % w))) * res * res
            <= radius * radius]]

\* the exclusion buffer is drawn with the radius of the positive one
exclusion_mask_positive_radius(points, h, w, res) ==
    rasterize_buffer(points, positive_radius, h, w, res)

\* main(), lines 56-63: the cells within the 1 km buffer of an occurrence
exclusion_mask(points, h, w, res) ==
    rasterize_buffer(points, exclusion_radius, h, w, res)

\* candidates taken from the whole grid, ignoring the exclusion mask
neg_candidates_all(excl) ==
    [r \in DOMAIN excl |-> [c \in DOMAIN excl[r] |-> TRUE]]

\* neg_candidates = ~excl_mask
neg_candidates_of(excl) ==
    [r \in DOMAIN excl |-> [c \in DOMAIN excl[r] |-> ~excl[r][c]]]

\* as many negatives as there are candidates, whatever the positives
num_neg_all(num_pos, n_candidates) == n_candidates

\* num_neg = min(num_pos, len(neg_indices))
num_neg_of(num_pos, n_candidates) ==
    IF num_pos <= n_candidates THEN num_pos ELSE n_candidates

\* main(): masks, negative sampling and the label vector
synthesize_labels(points, h, w, res, seed) ==
    LET pos_m == rasterize_buffer(points, positive_radius, h, w, res)
        excl_m == exclusion_mask(points, h, w, res)
        rng == RandomState(seed)
        neg_idx == Where(Reshape1D(neg_candidates_of(excl_m)))
        num_pos == MaskSum(Reshape1D(pos_m))
        num_neg == num_neg_of(num_pos, Len(neg_idx))
        sampled == IF num_neg > 0 THEN choice(neg_idx, num_neg, rng) ELSE <<>>
        sampled_neg == [p \in 1..(h * w) |-> (p - 1) \in Range(sampled)]
        neg_m == Reshape2D(sampled_neg, h, w)
        y0 == [p \in 1..(h * w) |-> -1]
        y1 == [p \in 1..(h * w) |-> IF Reshape1D(pos_m)[p] THEN 1 ELSE y0[p]]
        y2 == [p \in 1..(h * w) |-> IF Reshape1D(neg_m)[p] THEN 0 ELSE y1[p]]
    IN [pos_mask |-> pos_m, excl_mask |-> excl_m, neg_indices |-> neg_idx,
        sampled_idx |-> sampled, neg_mask |-> neg_m, y |-> y2,
        labeled_mask |-> [p \in 1..(h * w) |-> y2[p] >= 0]]

\* ------------------------------------------------------------ spatial blocks
\* np.linspace(start, stop, num, dtype=int): num edges from start to stop,
\* floored (num = k + 1 >= 2, operands non-negative)
linspace_int(start, stop, num) ==
    [j \in 1..num |-> (start * (num - 1) + (j - 1) * (stop - start)) \div (num - 1)]

\* np.digitize(x, bins) for non-decreasing bins: number of edges <= x
digitize(x, bins) == [p \in DOMAIN x |-> Cardinality({q \in DOMAIN bins : bins[q] <= x[p]})]

\* the last edge is the largest value itself, not the value after it
bin_edges_closed(vals, k) == linspace_int(Min(Range(vals)), Max(Range(vals)), k + 1)

\* lines 22-23: the k + 1 bin edges of one axis (vals non-empty)
bin_edges(vals, k) == linspace_int(Min(Range(vals)), Max(Range(vals)) + 1, k + 1)

\* lines 24-25: np.digitize(vals, edges) - 1, the bin of every value
bin_ids(vals, k) == [p \in DOMAIN vals |-> digitize(vals, bin_edges(vals, k))[p] - 1]

\* assign_spatial_blocks (rows non-empty)
assign_spatial_blocks(rows, cols, k) ==
    LET row_ids == bin_ids(rows, k)
        col_ids == bin_ids(cols, k)
    IN [p \in DOMAIN rows |-> row_ids[p] * k + col_ids[p]]

\* k sections of len(a) // k elements each, the remainder left out
array_split_truncating(a, k) ==
    [j \in 1..k |-> SubSeq(a, (j - 1) * (Len(a) \div k) + 1, j * (Len(a) \div k))]

\* np.array_split(a, k): the first len(a) % k sections get one element more
array_split(a, k) ==
    LET each == Len(a) \div k
        extras == Len(a) % k
        start(j) == (j - 1) * each + (IF j - 1 < extras THEN j - 1 ELSE extras)
    IN [j \in 1..k |-> SubSeq(a, start(j) + 1, start(j + 1))]

\* blocks computed with bin edges taken from the positive cells only
cv_blocks_by_label(df, lab_mask, y_lab, k) ==
    LET rows == Select(df["row"], lab_mask)
        cols == Select(df["col"], lab_mask)
        pos == [p \in DOMAIN y_lab |-> y_lab[p] = 1]
        ref == IF MaskSum(pos) = 0 THEN [p \in DOMAIN y_lab |-> TRUE] ELSE pos
        row_bins == linspace_int(Min(Range(Select(rows, ref))), Max(Range(rows)) + 1, k + 1)
        col_bins == linspace_int(Min(Range(Select(cols, ref))), Max(Range(cols)) + 1, k + 1)
    IN [p \in DOMAIN rows |->
          (digitize(rows, row_bins)[p] - 1) * k + (digitize(cols, col_bins)[p] - 1)]

\* the mask is ignored: every grid cell gets a block id
cv_blocks_whole_grid(df, lab_mask, y_lab, k) ==
    assign_spatial_blocks(df["row"], df["col"], k)

\* spatial_block_cv, lines 40-42: block id of every labeled row
cv_blocks(df, lab_mask, y_lab, k) ==
    assign_spatial_blocks(Select(df["row"], lab_mask),
                          Select(df["col"], lab_mask), k)

\* spatial_block_cv, lines 47-51: seeded shuffle of the block ids, k folds
cv_folds(blks, k, random_state) ==
    array_split(shuffle(unique(blks), RandomState(random_state)).arr, k)

\* only the first block id of the fold is looked up
isin_first_value(a, vals) == [p \in DOMAIN a |-> vals # <<>> /\ a[p] = vals[1]]

\* np.isin(blocks, fold_blocks)
isin(a, vals) == [p \in DOMAIN a |-> a[p] \in Range(vals)]

\* the complement is forgotten: every row trains
train_mask_all(test_mask) == [p \in DOMAIN test_mask |-> TRUE]

\* train_mask = ~test_mask
train_mask_of(test_mask) == [p \in DOMAIN test_mask |-> ~test_mask[p]]

\* only the test side is looked at
fold_degenerate_test_only(test_mask, train_mask) == MaskSum(test_mask) = 0

\* spatial_block_cv, line 59: the fold is skipped when a side is empty
fold_degenerate(test_mask, train_mask) ==
    MaskSum(test_mask) = 0 \/ MaskSum(train_mask) = 0

\* every fold gets a seed of its own
new_fold_classifier_reseeded(random_state, fold) == [random_state |-> random_state + fold]

\* spatial_block_cv, line 63: a new estimator for the fold, seeded alike
new_fold_classifier(random_state, fold) == [random_state |-> random_state]

\* ---------------------------------------------------------------- classifier
\* RandomForestClassifier is a library object: the model keeps what the fit
\* was given and answers deterministically from it
RowFinite(row) == \A q \in DOMAIN row : isfinite(row[q])

AllFinite(X) == \A p \in DOMAIN X : RowFinite(X[p])

Count(a, v) == Cardinality({p \in DOMAIN a : a[p] = v})

rf_fit(X, y_fit, random_state) ==
    [classes |-> unique(y_fit), X |-> X, y |-> y_fit, random_state |-> random_state]

\* votes of the training rows for class c at feature vector x
Votes(model, x, c) ==
    LET same == {p \in DOMAIN model.X : model.X[p] = x}
        pool == IF same = {} THEN DOMAIN model.X ELSE same
    IN Cardinality({p \in pool : model.y[p] = c})

\* clf.predict: the class with most votes, the first one on a tie
rf_predict_row(model, x) ==
    CHOOSE c \in Range(model.classes) :
        \A c2 \in Range(model.classes) :
            \/ Votes(model, x, c) > Votes(model, x, c2)
            \/ (Votes(model, x, c) = Votes(model, x, c2) /\ c <= c2)

rf_predict(model, X) == [p \in DOMAIN X |-> rf_predict_row(model, X[p])]

\* clf.predict_proba: one column per class of classes_, in percent
rf_predict_proba(model, X) ==
    [p \in DOMAIN X |-> [q \in DOMAIN model.classes |->
        (100 * Votes(model, X[p], model.classes[q]))
        \div SumSeq([q2 \in DOMAIN model.classes |-> Votes(model, X[p], model.classes[q2])])]]

\* rf.feature_importances_: a feature constant over the training rows gets 0
rf_feature_importances(model) ==
    [q \in DOMAIN model.X[1] |-> Cardinality({model.X[p][q] : p \in DOMAIN model.X}) - 1]

\* sklearn.metrics.confusion_matrix: counts per (true, predicted) label pair
confusion_matrix(y_true, y_pred) ==
    LET labs == Range(y_true) \cup Range(y_pred)
    IN [ab \in labs \X labs |->
          Cardinality({p \in DOMAIN y_true : y_true[p] = ab[1] /\ y_pred[p] = ab[2]})]

\* sklearn.metrics.classification_report, reduced to support and hits
classification_report(y_true, y_pred) ==
    [support |-> Len(y_true),
     correct |-> Cardinality({p \in DOMAIN y_true : y_true[p] = y_pred[p]})]

\* SMOTE(...).fit_resample raises when there is a single class, or when a
\* class to oversample has too few rows for its 5 nearest neighbours
smote_fails(X, y_in) ==
    LET cls == Range(y_in)
        n_maj == Max({Count(y_in, c) : c \in cls})
    IN \/ Cardinality(cls) < 2
       \/ \E c \in cls : Count(y_in, c) < n_maj /\ Count(y_in, c) <= 5

\* the synthetic rows of a successful resampling: every minority class is
\* filled up to the majority count from its own rows
RECURSIVE smote_new_rows(_, _, _)
smote_new_rows(X, y_in, todo) ==
    IF todo = <<>> THEN [X |-> <<>>, y |-> <<>>]
    ELSE LET c == Head(todo)
             own == Select(X, [p \in DOMAIN y_in |-> y_in[p] = c])
             n_new == Max({Count(y_in, c2) : c2 \in Range(y_in)}) - Count(y_in, c)
             rest == smote_new_rows(X, y_in, Tail(todo))
         IN [X |-> [q \in 1..n_new |-> own[((q - 1) % Len(own)) + 1]] \o rest.X,
             y |-> [q \in 1..n_new |-> c] \o rest.y]

fit_resample(X, y_in) ==
    LET new == smote_new_rows(X, y_in, unique(y_in))
    IN [X |-> X \o new.X, y |-> y_in \o new.y]

\* the try/except is missing: a failure of the resampling ends train_rf
smote_step_raising(X, y_in, use_smote) ==
    IF ~use_smote THEN [X |-> X, y |-> y_in, warned |-> FALSE, raised |-> FALSE]
    ELSE IF y_in = <<>> \/ smote_fails(X, y_in)
         THEN [X |-> X, y |-> y_in, warned |-> FALSE, raised |-> TRUE]
         ELSE [X |-> fit_resample(X, y_in).X, y |-> fit_resample(X, y_in).y,
               warned |-> FALSE, raised |-> FALSE]

\* train_rf, lines 43-48: best-effort oversampling
smote_step(X, y_in, use_smote) ==
    IF ~use_smote THEN [X |-> X, y |-> y_in, warned |-> FALSE, raised |-> FALSE]
    ELSE IF y_in = <<>> \/ smote_fails(X, y_in)
         THEN [X |-> X, y |-> y_in, warned |-> TRUE, raised |-> FALSE]
         ELSE [X |-> fit_resample(X, y_in).X, y |-> fit_resample(X, y_in).y,
               warned |-> FALSE, raised |-> FALSE]

\* the labels are cut to the number of retained rows instead of being masked
nan_drop_labels_from_top(df, names, lab_mask, y_lab) ==
    LET X0 == Select(ToMatrix(df, names), lab_mask)
        keep == [p \in DOMAIN X0 |-> RowFinite(X0[p])]
    IN [X |-> Select(X0, keep), y |-> SubSeq(y_lab, 1, MaskSum(keep)), keep |-> keep]

\* train_rf, lines 37-41: the labeled rows without the non-finite ones
nan_drop(df, names, lab_mask, y_lab) ==
    LET X0 == Select(ToMatrix(df, names), lab_mask)
        keep == [p \in DOMAIN X0 |-> RowFinite(X0[p])]
    IN [X |-> Select(X0, keep), y |-> Select(y_lab, keep), keep |-> keep]

\* train_rf: what the fit received, and the TrainResult when there is one
train_rf(df, names, lab_mask, y_lab, random_state, use_smote) ==
    LET kept == nan_drop(df, names, lab_mask, y_lab)
        sm == smote_step(kept.X, kept.y, use_smote)
        rf == rf_fit(sm.X, sm.y, random_state)
    IN IF sm.raised
       THEN [error |-> "ValueError", fitted |-> FALSE, warned |-> sm.warned,
             X |-> sm.X, y |-> sm.y, result |-> <<>>]
       ELSE IF sm.X = <<>>
       THEN [error |-> "ValueError", fitted |-> TRUE, warned |-> sm.warned,
             X |-> sm.X, y |-> sm.y, result |-> <<>>]
       ELSE [error |-> "", fitted |-> TRUE, warned |-> sm.warned,
             X |-> sm.X, y |-> sm.y,
             result |-> <<[model |-> rf,
                           feature_names |-> names,
                           report |-> classification_report(sm.y, rf_predict(rf, sm.X)),
                           conf_matrix |-> confusion_matrix(sm.y, rf_predict(rf, sm.X)),
                           importance |-> rf_feature_importances(rf)]>>]

\* ---------------------------------------------------------------- prediction
\* order of floats: -inf < finite values < +inf
FloatLE(a, b) ==
    LET ra == IF a.k = "inf" THEN a.v ELSE 0
        rb == IF b.k = "inf" THEN b.v ELSE 0
    IN ra < rb \/ (ra = rb /\ (ra # 0 \/ a.v * b.d <= b.v * a.d))

RECURSIVE InsertSorted(_, _)
InsertSorted(x, s) ==
    IF s = <<>> THEN <<x>>
    ELSE IF FloatLE(x, Head(s)) THEN <<x>> \o s
    ELSE <<Head(s)>> \o InsertSorted(x, Tail(s))

RECURSIVE SortFloats(_)
SortFloats(s) == IF s = <<>> THEN <<>> ELSE InsertSorted(Head(s), SortFloats(Tail(s)))

\* (a + b) / 2 in IEEE arithmetic, for operands without NaN
Mean2(a, b) ==
    IF a.k = "inf" /\ b.k = "inf" THEN (IF a.v = b.v THEN a ELSE NaN)
    ELSE IF a.k = "inf" THEN a
    ELSE IF b.k = "inf" THEN b
    ELSE IF (a.v + b.v) % 2 = 0 THEN Fin((a.v + b.v) \div 2)
    ELSE [k |-> "fin", v |-> a.v + b.v, d |-> 2]

\* median of the finite entries only
finite_median(col) ==
    LET vals == SortFloats(Select(col, [p \in DOMAIN col |-> isfinite(col[p])]))
        n == Len(vals)
    IN IF n = 0 THEN NaN
       ELSE IF n % 2 = 1 THEN vals[(n + 1) \div 2]
       ELSE Mean2(vals[n \div 2], vals[(n \div 2) + 1])

\* np.nanmedian of one column: the NaN entries are left out, the infinite
\* ones are not; an all-NaN column gives NaN
nanmedian(col) ==
    LET vals == SortFloats(Select(col, [p \in DOMAIN col |-> ~isnan(col[p])]))
        n == Len(vals)
    IN IF n = 0 THEN NaN
       ELSE IF n % 2 = 1 THEN vals[(n + 1) \div 2]
       ELSE Mean2(vals[n \div 2], vals[(n \div 2) + 1])

\* predict_full_grid, line 75: np.where(isfinite(X), X, nanmedian(X, axis=0))
impute_full_grid(X_full) ==
    [p \in DOMAIN X_full |-> [q \in DOMAIN X_full[p] |->
        IF isfinite(X_full[p][q]) THEN X_full[p][q]
        ELSE nanmedian([p2 \in DOMAIN X_full |-> X_full[p2][q]])]]

\* predict_full_grid: the matrix scored and column 1 of predict_proba
predict_full_grid(model, df, names) ==
    LET X_imp == impute_full_grid(ToMatrix(df, names))
    IN IF ~AllFinite(X_imp)
       THEN [error |-> "ValueError", X |-> X_imp, proba |-> <<>>]
       ELSE IF Len(model.classes) < 2
       THEN [error |-> "IndexError", X |-> X_imp, proba |-> <<>>]
       ELSE [error |-> "", X |-> X_imp,
             proba |-> [p \in DOMAIN X_imp |-> rf_predict_proba(model, X_imp)[p][2]]]

\* ------------------------------------------------------------------- inputs
\* pixel sizes in metres: 30 is the configured one (both buffers cover a small
\* grid), 800 leaves a ring between the buffers, 1100 makes both one cell wide
GridResolutions == {30, 800, 1100}
Seeds == {42}
Elevations == {"ramp"}
\* (height, width) of the reprojected grid
Shapes == {<<2, 1>>, <<1, 3>>, <<2, 2>>}

Cells(h, w) == 0..(h * w - 1)

\* an elevation grid of the given shape with the given no-data cells
DemGrid(h, w, elev, nodata) ==
    [r \in 1..h |-> [c \in 1..w |->
        IF ((r - 1) * w + (c - 1)) \in nodata THEN NaN
        ELSE IF elev = "flat" THEN Fin(0) ELSE Fin(2 * (r - 1) + (c - 1))]]

\* --------------------------------------------------------------- main()
\* main() not started yet
PipelineIdle ==
    /\ pc = "load"
    /\ steps = <<>>
    /\ run_log = <<>>
    /\ cfg = [grid_resolution_m |-> 30, random_state |-> 42,
              spatial_block_k |-> 5, smote_enabled |-> TRUE]
    /\ dem_grid_utm = <<>>
    /\ mrds_utm = {}
    /\ df_features = <<>>
    /\ feature_names = <<>>
    /\ pos_mask = <<>> /\ excl_mask = <<>> /\ neg_indices = <<>>
    /\ sampled_idx = <<>> /\ y = <<>> /\ labeled_mask = <<>>
    /\ blocks = <<>> /\ folds = <<>> /\ fold_i = 0 /\ fold_log = <<>>
    /\ reports = <<>> /\ cms = <<>>
    /\ fit_calls = <<>> /\ warnings = <<>>
    /\ result = <<>> /\ proba = <<>> /\ outputs = <<>>
    /\ error = ""

\* nothing handed to the assembly, to train_rf, to the hotspot ranking or to
\* the block partitioner on their own
AsmIdle == fs_in = <<>> /\ fs_out = <<>>

TrainIdle == tr_in = <<>> /\ tr_out = <<>>

HotspotsIdle == hs_in = <<>> /\ hs_out = <<>>

BlocksIdle == bl_in = <<>> /\ bl_out = <<>>

\* the document-extraction API just started: both job stores empty
ApiIdle ==
    /\ routes_job_storage = <<>>
    /\ main_job_storage = <<>>
    /\ background_tasks = <<>>
    /\ responses = <<>>

UnitIdle == AsmIdle /\ TrainIdle /\ HotspotsIdle /\ BlocksIdle /\ ApiIdle

Init ==
    /\ PipelineIdle
    /\ pg_X = <<>> /\ pg_out = <<>>
    /\ UnitIdle

inputVars == <<cfg, dem_grid_utm, mrds_utm>>
featVars == <<df_features, feature_names>>
labelVars == <<pos_mask, excl_mask, neg_indices, sampled_idx, y, labeled_mask>>
cvVars == <<blocks, folds, fold_i, fold_log, reports, cms>>
fitVars == <<result, proba, outputs>>
pgVars == <<pg_X, pg_out>>
asmVars == <<fs_in, fs_out>>
trainVars == <<tr_in, tr_out>>
hsVars == <<hs_in, hs_out>>
blVars == <<bl_in, bl_out>>
apiVars == <<routes_job_storage, main_job_storage, background_tasks, responses>>
unitVars == <<asmVars, trainVars, hsVars, blVars, apiVars>>
\* the variables of main() and of spatial_block_cv
pipelineVars == <<pc, steps, run_log, inputVars, featVars, labelVars, cvVars, fitVars,
                  fit_calls, warnings, error>>

\* the exception is swallowed and main() goes on to its output section
Abort_swallowed(exc) == pc' = "output" /\ error' = exc

\* an exception leaves main()
Abort(exc) == pc' = "aborted" /\ error' = exc

\* the final fit is moved in front of the cross-validation
main_next_fit_first(p) ==
    CASE p = "load" -> "build"
      [] p = "build" -> "labels"
      [] p = "labels" -> "train"
      [] p = "train" -> "cv"
      [] p = "cv" -> "fold"
      [] p = "fold" -> "predict"
      [] p = "predict" -> "output"
      [] p = "output" -> "done"

\* main(): the statement sequence, as the position that follows each step
main_next(p) ==
    CASE p = "load" -> "build"
      [] p = "build" -> "labels"
      [] p = "labels" -> "cv"
      [] p = "cv" -> "fold"
      [] p = "fold" -> "train"
      [] p = "train" -> "predict"
      [] p = "predict" -> "output"
      [] p = "output" -> "done"

\* main(), lines 26-38: configuration, reprojected DEM, occurrence points.
\* reproject_match raises (rasterio CRSError) when a CRS cannot be resolved
LoadInputs ==
    /\ pc = "load"
    /\ \/ /\ Abort("CRSError")
          /\ UNCHANGED inputVars
       \/ /\ \E hw \in Shapes, elev \in Elevations,
                res \in GridResolutions, seed \in Seeds, k \in 1..MaxK, sm \in BOOLEAN :
              \E nodata \in {S \in SUBSET Cells(hw[1], hw[2]) : Cardinality(S) <= MaxNaN},
                 pts \in {S \in SUBSET Cells(hw[1], hw[2]) : Cardinality(S) <= MaxPoints} :
                  /\ cfg' = [grid_resolution_m |-> res, random_state |-> seed,
                             spatial_block_k |-> k, smote_enabled |-> sm]
                  /\ dem_grid_utm' = DemGrid(hw[1], hw[2], elev, nodata)
                  /\ mrds_utm' = pts
          /\ pc' = main_next("load")
          /\ UNCHANGED error
    /\ UNCHANGED <<steps, run_log, featVars, labelVars, cvVars, fitVars, fit_calls,
                   warnings, pgVars, unitVars>>

\* main(), line 40: df_features, grid_template, feature_names
BuildFeatures ==
    /\ pc = "build"
    /\ LET fs == build_feature_stack(dem_grid_utm, mrds_utm, cfg.grid_resolution_m)
       IN IF fs.error # ""
          THEN Abort(fs.error) /\ UNCHANGED <<featVars, steps>>
          ELSE /\ df_features' = fs.df
               /\ feature_names' = fs.names
               /\ pc' = main_next("build")
               /\ steps' = Append(steps, "features")
               /\ UNCHANGED error
    /\ UNCHANGED <<run_log, inputVars, labelVars, cvVars, fitVars, fit_calls,
                   warnings, pgVars, unitVars>>

\* main(), lines 42-81: masks, sampled negatives, label vector.  With no
\* occurrence point rasterize() either raises or returns an all-fill mask,
\* depending on the rasterio release
SynthLabels ==
    /\ pc = "labels"
    /\ \/ /\ mrds_utm = {}
          /\ Abort("ValueError")
          /\ UNCHANGED <<steps, labelVars>>
       \/ /\ LET lab == synthesize_labels(mrds_utm, Height(dem_grid_utm),
                                          Width(dem_grid_utm), cfg.grid_resolution_m,
                                          cfg.random_state)
             IN /\ pos_mask' = lab.pos_mask
                /\ excl_mask' = lab.excl_mask
                /\ neg_indices' = lab.neg_indices
                /\ sampled_idx' = lab.sampled_idx
                /\ y' = lab.y
                /\ labeled_mask' = lab.labeled_mask
          /\ pc' = main_next("labels")
          /\ steps' = Append(steps, "labels")
          /\ UNCHANGED error
    /\ UNCHANGED <<run_log, inputVars, featVars, cvVars, fitVars, fit_calls,
                   warnings, pgVars, unitVars>>

\* y_labeled = y[labeled_mask]
y_labeled == Select(y, labeled_mask)

\* spatial_block_cv, lines 38-54: blocks, folds, empty result lists
CVStart ==
    /\ pc = "cv"
    /\ IF MaskSum(labeled_mask) = 0
       THEN /\ Abort("ValueError")
            /\ UNCHANGED cvVars
       ELSE /\ blocks' = cv_blocks(df_features, labeled_mask, y_labeled, cfg.spatial_block_k)
            /\ folds' = cv_folds(blocks', cfg.spatial_block_k, cfg.random_state)
            /\ fold_i' = 1
            /\ fold_log' = <<>> /\ reports' = <<>> /\ cms' = <<>>
            /\ pc' = main_next("cv")
            /\ UNCHANGED error
    /\ UNCHANGED <<steps, run_log, inputVars, featVars, labelVars, fitVars, fit_calls,
                   warnings, pgVars, unitVars>>

\* spatial_block_cv, lines 56-69: one iteration of the fold loop (the return
\* of line 71 follows the last one).  A fit on no row at all raises; a fit or
\* predict on rows with non-finite values raises or not, depending on the
\* scikit-learn release
CVFold ==
    /\ pc = "fold"
    /\ LET X == Select(ToMatrix(df_features, feature_names), labeled_mask)
           y_lab == y_labeled
           fold_blocks == folds[fold_i]
           test_mask == isin(blocks, fold_blocks)
           train_mask == train_mask_of(test_mask)
           X_tr == Select(X, train_mask)
           y_tr == Select(y_lab, train_mask)
           X_te == Select(X, test_mask)
           y_te == Select(y_lab, test_mask)
           est == new_fold_classifier(cfg.random_state, fold_i)
           clf == rf_fit(X_tr, y_tr, est.random_state)
           y_pred == rf_predict(clf, X_te)
           entry == [fold_blocks |-> fold_blocks, test_mask |-> test_mask,
                     train_mask |-> train_mask]
           next_pc == IF fold_i = cfg.spatial_block_k THEN main_next("fold") ELSE "fold"
           next_steps == IF fold_i = cfg.spatial_block_k THEN Append(steps, "cv") ELSE steps
       IN IF fold_degenerate(test_mask, train_mask)
          THEN /\ fold_log' = Append(fold_log, entry @@ [skipped |-> TRUE, recorded |-> FALSE])
               /\ fold_i' = fold_i + 1
               /\ pc' = next_pc /\ steps' = next_steps
               /\ UNCHANGED <<reports, cms, fit_calls, error>>
          ELSE /\ fit_calls' = Append(fit_calls, [by |-> "spatial_block_cv", X |-> X_tr, y |-> y_tr,
                                                    random_state |-> clf.random_state])
               /\ \E raises \in (IF X_tr = <<>> THEN {TRUE}
                                 ELSE IF AllFinite(X_tr) /\ AllFinite(X_te) THEN {FALSE}
                                 ELSE BOOLEAN) :
                    IF raises
                    THEN /\ Abort("ValueError")
                         /\ fold_log' = Append(fold_log, entry @@ [skipped |-> FALSE, recorded |-> FALSE])
                         /\ UNCHANGED <<reports, cms, fold_i, steps>>
                    ELSE /\ reports' = Append(reports, classification_report(y_te, y_pred))
                         /\ cms' = Append(cms, confusion_matrix(y_te, y_pred))
                         /\ fold_log' = Append(fold_log, entry @@ [skipped |-> FALSE, recorded |-> TRUE])
                         /\ fold_i' = fold_i + 1
                         /\ pc' = next_pc /\ steps' = next_steps
                         /\ UNCHANGED error
    /\ UNCHANGED <<run_log, inputVars, featVars, labelVars, blocks, folds, fitVars,
                   warnings, pgVars, unitVars>>

\* main(), lines 94-106: final model on all labeled rows
FinalFit ==
    /\ pc = "train"
    /\ LET tr == train_rf(df_features, feature_names, labeled_mask, y_labeled,
                          cfg.random_state, cfg.smote_enabled)
       IN /\ warnings' = IF tr.warned THEN Append(warnings, "SMOTE failed; proceeding without.")
                          ELSE warnings
          /\ fit_calls' = IF tr.fitted
                           THEN Append(fit_calls, [by |-> "train_rf", X |-> tr.X, y |-> tr.y,
                                                    random_state |-> cfg.random_state])
                           ELSE fit_calls
          /\ result' = tr.result
          /\ IF tr.error # ""
             THEN Abort(tr.error) /\ UNCHANGED steps
             ELSE pc' = main_next("train") /\ steps' = Append(steps, "fit") /\ UNCHANGED error
    /\ UNCHANGED <<run_log, inputVars, featVars, labelVars, cvVars, proba, outputs, pgVars, unitVars>>

\* main(), lines 108-110: probability of the positive class for every cell
Predict ==
    /\ pc = "predict"
    /\ LET pr == predict_full_grid(result[1].model, df_features, feature_names)
       IN IF pr.error # ""
          THEN Abort(pr.error) /\ UNCHANGED <<proba, steps>>
          ELSE /\ proba' = pr.proba
               /\ pc' = main_next("predict")
               /\ steps' = Append(steps, "predict")
               /\ UNCHANGED error
    /\ UNCHANGED <<run_log, inputVars, featVars, labelVars, cvVars, result, outputs,
                   fit_calls, warnings, pgVars, unitVars>>

\* main(), lines 112-133: the output files
WriteOutputs ==
    /\ pc = "output"
    /\ outputs' = <<"prospectivity_prob.tif", "hotspots.geojson", "feature_importance.png">>
                  \o [q \in 1..Len(reports) |-> "cv_report_fold"]
                  \o <<"model_report.txt", "interactive_map.html">>
    /\ pc' = main_next("output")
    /\ steps' = Append(steps, "outputs")
    /\ UNCHANGED <<run_log, inputVars, featVars, labelVars, cvVars, result, proba,
                   fit_calls, warnings, error, pgVars, unitVars>>

\* what a finished run leaves behind for comparison with the next one
RunRecord ==
    [steps |-> steps, error |-> error, y |-> y, sampled_idx |-> sampled_idx,
     blocks |-> blocks, folds |-> folds,
     importance |-> IF result = <<>> THEN <<>> ELSE result[1].importance]

\* main() is started again on the same (loaded) inputs, with the same
\* configuration
Rerun ==
    /\ pc \in {"done", "aborted"}
    /\ dem_grid_utm # <<>>
    /\ Len(run_log) + 1 < MaxRuns
    /\ run_log' = Append(run_log, RunRecord)
    /\ pc' = "build"
    /\ steps' = <<>>
    /\ df_features' = <<>> /\ feature_names' = <<>>
    /\ pos_mask' = <<>> /\ excl_mask' = <<>> /\ neg_indices' = <<>>
    /\ sampled_idx' = <<>> /\ y' = <<>> /\ labeled_mask' = <<>>
    /\ blocks' = <<>> /\ folds' = <<>> /\ fold_i' = 0 /\ fold_log' = <<>>
    /\ reports' = <<>> /\ cms' = <<>>
    /\ fit_calls' = <<>> /\ warnings' = <<>>
    /\ result' = <<>> /\ proba' = <<>> /\ outputs' = <<>>
    /\ error' = ""
    /\ UNCHANGED <<inputVars, pgVars, unitVars>>

\* one run of main()
Next ==
    \/ LoadInputs
    \/ BuildFeatures
    \/ SynthLabels
    \/ CVStart
    \/ CVFold
    \/ FinalFit
    \/ Predict
    \/ WriteOutputs

Spec == Init /\ [][Next]_vars

\* main() run again and again on the same inputs
NextRuns ==
    \/ LoadInputs
    \/ BuildFeatures
    \/ SynthLabels
    \/ CVStart
    \/ CVFold
    \/ FinalFit
    \/ Predict
    \/ WriteOutputs
    \/ Rerun

SpecRuns == Init /\ [][NextRuns]_vars

\* ------------------------------------------ main() on the 10 x 10 scenario
\* a 10 x 10 grid whose pixel size makes the 300 m buffer one cell and the
\* 1000 m buffer three cells wide, two blocks per axis, seed 42
Scenario ==
    [shape |-> <<10, 10>>,
     cfg |-> [grid_resolution_m |-> 300, random_state |-> 42,
              spatial_block_k |-> 2, smote_enabled |-> TRUE]]

\* main(), lines 26-38, on the scenario grid with one occurrence at any cell
LoadScenario ==
    /\ pc = "load"
    /\ \E pt \in Cells(Scenario.shape[1], Scenario.shape[2]) :
          /\ cfg' = Scenario.cfg
          /\ dem_grid_utm' = DemGrid(Scenario.shape[1], Scenario.shape[2], "ramp", {})
          /\ mrds_utm' = {pt}
    /\ pc' = main_next("load")
    /\ UNCHANGED <<steps, run_log, featVars, labelVars, cvVars, fitVars, fit_calls,
                   warnings, error, pgVars, unitVars>>

\* main() up to the block assignment of spatial_block_cv
NextScenario ==
    \/ LoadScenario
    \/ BuildFeatures
    \/ SynthLabels
    \/ CVStart

SpecScenario == Init /\ [][NextScenario]_vars

\* ------------------------------------------- predict_full_grid on its own
PGValues == {Fin(0), Fin(2), NaN, PosInf, NegInf}

\* any small FeatureTable restricted to its feature columns
InitPG ==
    /\ PipelineIdle
    /\ pg_out = <<>>
    /\ UnitIdle
    /\ \E n \in 1..MaxRowsPG, m \in 1..2 : pg_X \in [1..n -> [1..m -> PGValues]]

\* predict_full_grid, lines 74-75: the matrix handed to predict_proba
PGImpute ==
    /\ pg_out = <<>>
    /\ pg_X # <<>>
    /\ pg_out' = impute_full_grid(pg_X)
    /\ UNCHANGED <<pc, steps, run_log, inputVars, featVars, labelVars, cvVars, fitVars,
                   fit_calls, warnings, error, pg_X, unitVars>>

NextPG == PGImpute

SpecPredict == InitPG /\ [][NextPG]_vars

\* ------------------------------------- the feature-stack assembly on its own
\* (height, width) of the rasters handed to the assembly
RasterShapes == {<<1, 1>>, <<1, 2>>, <<2, 1>>, <<2, 2>>}

FeatureNames == <<"slope_deg", "aspect_deg", "edge_density", "dist_to_ree_m">>

\* raster number q of the given shape; a cell value tells raster and cell
Raster(q, hw) == [r \in 1..hw[1] |-> [c \in 1..hw[2] |-> Fin(100 * q + 10 * r + c)]]

\* any list of two to MaxRasters (raster, name) pairs, of any shapes
InitAssemble ==
    /\ PipelineIdle
    /\ pg_X = <<>> /\ pg_out = <<>>
    /\ fs_out = <<>> /\ TrainIdle /\ HotspotsIdle /\ BlocksIdle /\ ApiIdle
    /\ \E n \in 2..MaxRasters :
          \E shp \in [1..n -> RasterShapes] :
              fs_in = [q \in 1..n |-> <<Raster(q, shp[q]), FeatureNames[q]>>]

\* build_feature_stack, lines 98-109, on the given pairs; the grid shape is
\* the one of the first raster
Assemble ==
    /\ fs_out = <<>>
    /\ fs_in # <<>>
    /\ fs_out' = <<assemble_features(fs_in, Height(fs_in[1][1]), Width(fs_in[1][1]))>>
    /\ UNCHANGED <<pc, steps, run_log, inputVars, featVars, labelVars, cvVars, fitVars,
                   fit_calls, warnings, error, pgVars, fs_in, trainVars, hsVars, blVars, apiVars>>

NextAssemble == Assemble

SpecAssemble == InitAssemble /\ [][NextAssemble]_vars

\* ------------------------------------------------------ train_rf on its own
\* a labeled table of n1 positive rows followed by n0 negative rows with one
\* feature column taking m values in turn, its first entry NaN when asked
TrainTable(n1, n0, m, first_nan) ==
    [df |-> [nm \in {"slope_deg"} |->
                [p \in 1..(n1 + n0) |-> IF first_nan /\ p = 1 THEN NaN ELSE Fin(p % m)]],
     feature_names |-> <<"slope_deg">>,
     labeled_mask |-> [p \in 1..(n1 + n0) |-> TRUE],
     y |-> [p \in 1..(n1 + n0) |-> IF p <= n1 THEN 1 ELSE 0]]

\* the arguments of one call of train_rf
InitTrain ==
    /\ PipelineIdle
    /\ pg_X = <<>> /\ pg_out = <<>>
    /\ AsmIdle /\ tr_out = <<>> /\ HotspotsIdle /\ BlocksIdle /\ ApiIdle
    /\ \E n1 \in 0..MaxClassRows, n0 \in 0..MaxClassRows, m \in 1..2,
          first_nan \in BOOLEAN, use_smote \in BOOLEAN :
          /\ n1 + n0 >= 1
          /\ tr_in = <<TrainTable(n1, n0, m, first_nan) @@ [use_smote |-> use_smote]>>

\* train_rf, lines 37-70, on the given arguments
Train ==
    /\ tr_out = <<>>
    /\ tr_in # <<>>
    /\ tr_out' = <<train_rf(tr_in[1].df, tr_in[1].feature_names, tr_in[1].labeled_mask,
                            tr_in[1].y, cfg.random_state, tr_in[1].use_smote)>>
    /\ UNCHANGED <<pc, steps, run_log, inputVars, featVars, labelVars, cvVars, fitVars,
                   fit_calls, warnings, error, pgVars, asmVars, tr_in, hsVars, blVars, apiVars>>

NextTrain == Train

SpecTrain == InitTrain /\ [][NextTrain]_vars

\* --------------------------------------- top_hotspots_to_geojson on its own
MaxTopK == 3       \* top_k explored: 0..MaxTopK

\* (height, width) of the probability surfaces handed to the hotspot ranking
SurfaceShapes == {<<1, 1>>, <<1, 3>>, <<2, 2>>}

\* predict_proba values, in percent
Scores == {0, 50, 100}

\* np.argsort(a): the orders of the positions 0..n-1 that put the values in
\* non-decreasing order; the default sort kind is not stable, so the order
\* among equal values is any
argsort(a) ==
    {o \in [1..Len(a) -> 0..(Len(a) - 1)] :
        /\ \A i, j \in 1..Len(a) : i # j => o[i] # o[j]
        /\ \A i, j \in 1..Len(a) : i < j => a[o[i] + 1] <= a[o[j] + 1]}

\* the sorted order is taken as it is, lowest value first
hotspot_order_ascending(order, top_k) == SubSeq(order, 1, Min({top_k, Len(order)}))

\* line 28: [::-1][:top_k]
hotspot_order(order, top_k) ==
    [i \in 1..Min({top_k, Len(order)}) |-> order[Len(order) + 1 - i]]

\* top_hotspots_to_geojson, lines 28-39, for one outcome of np.argsort: per
\* hotspot the cell from np.unravel_index, the score and the pixel footprint
\* box(x, y + e, x + a, y) under the transform (a = res, e = -res, c = f = 0)
top_hotspots_to_geojson(proba_grid, res, top_k, order) ==
    LET w == Width(proba_grid)
        idx == hotspot_order(order, top_k)
    IN [i \in DOMAIN idx |->
          LET r == idx[i] \div w
              c == idx[i] % w
              x == c * res
              yy == r * (0 - res)
          IN [row |-> r, col |-> c,
              score |-> proba_grid[r + 1][c + 1],
              poly |-> [minx |-> x, miny |-> yy - res, maxx |-> x + res, maxy |-> yy]]]

\* the arguments of one call of top_hotspots_to_geojson
InitHotspots ==
    /\ PipelineIdle
    /\ pg_X = <<>> /\ pg_out = <<>>
    /\ AsmIdle /\ TrainIdle /\ hs_out = <<>> /\ BlocksIdle /\ ApiIdle
    /\ \E hw \in SurfaceShapes, top_k \in 0..MaxTopK :
          \E g \in [1..hw[1] -> [1..hw[2] -> Scores]] :
              hs_in = <<[proba |-> g, top_k |-> top_k]>>

\* top_hotspots_to_geojson on the given arguments
Hotspots ==
    /\ hs_out = <<>>
    /\ hs_in # <<>>
    /\ \E order \in argsort(Reshape1D(hs_in[1].proba)) :
          hs_out' = <<top_hotspots_to_geojson(hs_in[1].proba, cfg.grid_resolution_m, hs_in[1].top_k, order)>>
    /\ UNCHANGED <<pipelineVars, pgVars, asmVars, trainVars, hs_in, blVars, apiVars>>

NextHotspots == Hotspots

SpecHotspots == InitHotspots /\ [][NextHotspots]_vars

\* ------------------- assign_spatial_blocks and the fold split on their own
\* (height, width) of the grids the labeled cells are taken from
BlockGrids == {<<6, 1>>, <<1, 4>>, <<3, 3>>}

\* the row (first) or col (second) index of the given cells of a grid of
\* width w, in row-major order, as df.loc[labeled_mask, ...] lists them
CellAxis(cells, w, axis) ==
    LET flat == SortSet(cells)
    IN [p \in DOMAIN flat |-> IF axis = 1 THEN flat[p] \div w ELSE flat[p] % w]

\* the arguments of assign_spatial_blocks: any non-empty set of labeled cells
\* of a grid, any k
InitBlocks ==
    /\ PipelineIdle
    /\ pg_X = <<>> /\ pg_out = <<>>
    /\ AsmIdle /\ TrainIdle /\ HotspotsIdle /\ bl_out = <<>> /\ ApiIdle
    /\ \E hw \in BlockGrids, k \in 1..MaxK :
          \E cells \in SUBSET Cells(hw[1], hw[2]) :
              /\ cells # {}
              /\ bl_in = <<[rows |-> CellAxis(cells, hw[2], 1),
                            cols |-> CellAxis(cells, hw[2], 2),
                            k |-> k]>>

\* spatial_block_cv, line 42: blocks = assign_spatial_blocks(rows, cols, k)
AssignBlocks ==
    /\ bl_in # <<>>
    /\ bl_out = <<>>
    /\ bl_out' = <<[blocks |-> assign_spatial_blocks(bl_in[1].rows, bl_in[1].cols, bl_in[1].k),
                    folds |-> <<>>]>>
    /\ UNCHANGED <<pipelineVars, pgVars, asmVars, trainVars, hsVars, bl_in, apiVars>>

\* spatial_block_cv, lines 48-51: the folds of block ids
SplitFolds ==
    /\ bl_out # <<>>
    /\ bl_out[1].folds = <<>>
    /\ bl_out' = <<[bl_out[1] EXCEPT
                       !.folds = cv_folds(bl_out[1].blocks, bl_in[1].k, cfg.random_state)]>>
    /\ UNCHANGED <<pipelineVars, pgVars, asmVars, trainVars, hsVars, bl_in, apiVars>>

NextBlocks == AssignBlocks \/ SplitFolds

SpecBlocks == InitBlocks /\ [][NextBlocks]_vars

\* ------------------------------------------- the document-extraction API
MaxJobs == 2       \* jobs created by POST /process and /process/batch
MaxRequests == 4   \* HTTP requests answered
MaxFiles == 2      \* files of one batch upload

\* str(uuid.uuid4()): an id no earlier job has
NewJobId == Cardinality(DOMAIN background_tasks) + 1

\* job_storage[job_id] = data
PutJob(store, job_id, data) ==
    [j \in DOMAIN store \cup {job_id} |-> IF j = job_id THEN data ELSE store[j]]

\* del job_storage[job_id]
RemoveJob(store, job_id) == [j \in DOMAIN store \ {job_id} |-> store[j]]

\* routes.py, lines 72-79 and 125-132: the job is put into the job_storage
\* of routes.py; the job_storage of main.py is another dictionary
register_job(routes_store, main_store, job_id, data) ==
    [routes |-> PutJob(routes_store, job_id, data),
     main |-> main_store]

\* a response, with what routes.py held about the job when it was sent
Response(endpoint, job_id, code, status) ==
    [endpoint |-> endpoint, job_id |-> job_id, code |-> code, status |-> status,
     created |-> job_id \in DOMAIN background_tasks,
     stored |-> IF job_id \in DOMAIN routes_job_storage
                THEN routes_job_storage[job_id].status ELSE "deleted"]

CanRespond == Len(responses) < MaxRequests

\* process_document / process_batch: 400 for a file that is not a PDF, else
\* a pending job, a queued background task and the JobStatus response
PostProcess ==
    /\ CanRespond
    /\ \E kind \in {"single", "batch"}, n \in 1..MaxFiles, is_pdf \in BOOLEAN :
          /\ kind = "single" => n = 1
          /\ IF ~is_pdf
             THEN /\ responses' = Append(responses, Response("POST /process", 0, 400, ""))
                  /\ UNCHANGED <<routes_job_storage, main_job_storage, background_tasks>>
             ELSE /\ NewJobId <= MaxJobs
                  /\ LET job_id == NewJobId
                         data == [job_id |-> job_id, status |-> "pending", progress |-> 0,
                                  result_path |-> "", error |-> ""]
                         reg == register_job(routes_job_storage, main_job_storage, job_id, data)
                     IN /\ routes_job_storage' = reg.routes
                        /\ main_job_storage' = reg.main
                        /\ background_tasks' =
                              PutJob(background_tasks, job_id,
                                     [kind |-> kind, n |-> n, i |-> 0, at |-> "queued"])
                        /\ responses' = Append(responses,
                              [endpoint |-> "POST /process", job_id |-> job_id, code |-> 200,
                               status |-> "pending", created |-> TRUE, stored |-> "pending"])
    /\ UNCHANGED <<pipelineVars, pgVars, asmVars, trainVars, hsVars, blVars>>

\* the task wrote to a job that DELETE has removed: KeyError, and KeyError
\* again in the except clause, so the task dies with its job absent
TaskCrash(job_id) ==
    /\ background_tasks' = [background_tasks EXCEPT ![job_id].at = "crashed"]
    /\ UNCHANGED routes_job_storage

\* process_document_background, lines 168-181, and process_batch_background,
\* lines 323-339: status 'processing', then the task waits for file.read()
TaskStart ==
    /\ \E job_id \in DOMAIN background_tasks :
          /\ background_tasks[job_id].at = "queued"
          /\ IF job_id \notin DOMAIN routes_job_storage
             THEN TaskCrash(job_id)
             ELSE /\ routes_job_storage' =
                        [routes_job_storage EXCEPT
                            ![job_id].status = "processing",
                            ![job_id].progress =
                                IF background_tasks[job_id].kind = "single" THEN 10 ELSE 0]
                  /\ background_tasks' =
                        [background_tasks EXCEPT ![job_id].at = "reading", ![job_id].i = 1]
    /\ UNCHANGED <<pipelineVars, pgVars, asmVars, trainVars, hsVars, blVars,
                   main_job_storage, responses>>

\* process_batch_background, lines 332-340: the next file of the batch
TaskNextFile ==
    /\ \E job_id \in DOMAIN background_tasks :
          LET t == background_tasks[job_id]
          IN /\ t.at = "reading"
             /\ t.i < t.n
             /\ IF job_id \notin DOMAIN routes_job_storage
                THEN TaskCrash(job_id)
                ELSE /\ routes_job_storage' =
                           [routes_job_storage EXCEPT ![job_id].progress = (100 * t.i) \div t.n]
                     /\ background_tasks' = [background_tasks EXCEPT ![job_id].i = t.i + 1]
    /\ UNCHANGED <<pipelineVars, pgVars, asmVars, trainVars, hsVars, blVars,
                   main_job_storage, responses>>

\* process_document_background, lines 181-308, and process_batch_background,
\* lines 340-415, after the last read: no further await.  zipfile is not
\* imported in routes.py, so the export ends in NameError at the latest and
\* the except clause records 'failed'
TaskFinish ==
    /\ \E job_id \in DOMAIN background_tasks :
          LET t == background_tasks[job_id]
          IN /\ t.at = "reading"
             /\ t.i = t.n
             /\ IF job_id \notin DOMAIN routes_job_storage
                THEN TaskCrash(job_id)
                ELSE /\ routes_job_storage' =
                           [routes_job_storage EXCEPT
                               ![job_id].status = "failed",
                               ![job_id].error = "NameError",
                               ![job_id].progress =
                                   IF t.kind = "single" THEN 90 ELSE (100 * (t.n - 1)) \div t.n]
                     /\ background_tasks' = [background_tasks EXCEPT ![job_id].at = "finished"]
    /\ UNCHANGED <<pipelineVars, pgVars, asmVars, trainVars, hsVars, blVars,
                   main_job_storage, responses>>

\* main.py, get_job_status: GET /jobs/{job_id}
GetJobStatus ==
    /\ CanRespond
    /\ \E job_id \in 1..MaxJobs :
          responses' = Append(responses,
              IF job_id \notin DOMAIN main_job_storage
              THEN Response("GET /jobs/{job_id}", job_id, 404, "")
              ELSE Response("GET /jobs/{job_id}", job_id, 200, main_job_storage[job_id].status))
    /\ UNCHANGED <<pipelineVars, pgVars, asmVars, trainVars, hsVars, blVars,
                   routes_job_storage, main_job_storage, background_tasks>>

\* main.py, get_job_result: GET /jobs/{job_id}/result
GetJobResult ==
    /\ CanRespond
    /\ \E job_id \in 1..MaxJobs :
          responses' = Append(responses,
              IF job_id \notin DOMAIN main_job_storage
              THEN Response("GET /jobs/{job_id}/result", job_id, 404, "")
              ELSE IF main_job_storage[job_id].status # "completed"
              THEN Response("GET /jobs/{job_id}/result", job_id, 400,
                            main_job_storage[job_id].status)
              ELSE Response("GET /jobs/{job_id}/result", job_id, 200, "completed"))
    /\ UNCHANGED <<pipelineVars, pgVars, asmVars, trainVars, hsVars, blVars,
                   routes_job_storage, main_job_storage, background_tasks>>

\* routes.py, delete_job: DELETE /jobs/{job_id}
DeleteJob ==
    /\ CanRespond
    /\ \E job_id \in 1..MaxJobs :
          IF job_id \notin DOMAIN routes_job_storage
          THEN /\ responses' = Append(responses, Response("DELETE /jobs/{job_id}", job_id, 404, ""))
               /\ UNCHANGED routes_job_storage
          ELSE /\ routes_job_storage' = RemoveJob(routes_job_storage, job_id)
               /\ responses' = Append(responses,
                     Response("DELETE /jobs/{job_id}", job_id, 200,
                              routes_job_storage[job_id].status))
    /\ UNCHANGED <<pipelineVars, pgVars, asmVars, trainVars, hsVars, blVars,
                   main_job_storage, background_tasks>>

InitApi ==
    /\ PipelineIdle
    /\ pg_X = <<>> /\ pg_out = <<>>
    /\ UnitIdle

\* requests and background tasks, interleaved at the awaits of the tasks
NextApi ==
    \/ PostProcess
    \/ TaskStart
    \/ TaskNextFile
    \/ TaskFinish
    \/ GetJobStatus
    \/ GetJobResult
    \/ DeleteJob

SpecApi == InitApi /\ [][NextApi]_vars

\* ------------------------------------------------------------------ claims
LabelsBuilt == "labels" \in Range(steps)
FeaturesBuilt == "features" \in Range(steps)
\* train_rf has been called and has returned or raised
TrainRan == "cv" \in Range(steps) /\ pc # "train"

FoldTrainBlocks(f) == {blocks[p] : p \in {p2 \in DOMAIN blocks : fold_log[f].train_mask[p2]}}
FoldTestBlocks(f) == {blocks[p] : p \in {p2 \in DOMAIN blocks : fold_log[f].test_mask[p2]}}

\* C1: in every evaluated (non-skipped) fold no spatial block has rows on
\* both the training side and the test side
C1_NoLeakage ==
    \A f \in DOMAIN fold_log :
        ~fold_log[f].skipped => FoldTrainBlocks(f) \cap FoldTestBlocks(f) = {}

C1_Witness ==
    \E f \in DOMAIN fold_log :
        /\ fold_log[f].recorded
        /\ Cardinality(FoldTrainBlocks(f)) >= 2
        /\ FoldTestBlocks(f) # {}

PosFlat == Reshape1D(pos_mask)
ExclFlat == Reshape1D(excl_mask)
IsSampledNeg(p) == (p - 1) \in Range(sampled_idx)

\* C2: no cell is both in the positive mask and sampled as negative; positive
\* cells are labeled 1, sampled negatives 0, every other cell -1
C2_LabelExclusivity ==
    LabelsBuilt =>
        \A p \in DOMAIN y :
            /\ ~(PosFlat[p] /\ IsSampledNeg(p))
            /\ PosFlat[p] => y[p] = 1
            /\ IsSampledNeg(p) => y[p] = 0
            /\ (~PosFlat[p] /\ ~IsSampledNeg(p)) => y[p] = -1

C2_Witness ==
    /\ LabelsBuilt
    /\ \E p \in DOMAIN y : PosFlat[p] /\ y[p] = 1
    /\ \E p \in DOMAIN y : IsSampledNeg(p) /\ y[p] = 0
    /\ \E p \in DOMAIN y : ExclFlat[p] /\ ~PosFlat[p] /\ y[p] = -1

NumCandidates == Cardinality({p \in DOMAIN ExclFlat : ~ExclFlat[p]})

\* C3: as many 0 labels as 1 labels when the cells outside the exclusion mask
\* are at least as many as the positive cells, otherwise as many 0 labels as
\* there are such cells; the sampled negatives are pairwise distinct
C3_Balance ==
    LabelsBuilt =>
        /\ NumCandidates >= MaskSum(PosFlat) => Count(y, 1) = Count(y, 0)
        /\ NumCandidates < MaskSum(PosFlat) => Count(y, 0) = NumCandidates
        /\ Cardinality(Range(sampled_idx)) = Len(sampled_idx)

C3_Witness ==
    /\ LabelsBuilt
    /\ 0 < NumCandidates
    /\ NumCandidates < MaskSum(PosFlat)
    /\ Count(y, 0) = NumCandidates

CVStarted == folds # <<>>

\* C4: whatever 0/1 values the labeled cells carry, the partitioner gives
\* the same block ids and the same folds as for the labels of the run
C4_BlockPurity ==
    (CVStarted /\ fold_log = <<>>) =>
        \A y_other \in [DOMAIN y_labeled -> {0, 1}] :
            /\ cv_blocks(df_features, labeled_mask, y_other, cfg.spatial_block_k) = blocks
            /\ cv_folds(cv_blocks(df_features, labeled_mask, y_other, cfg.spatial_block_k),
                        cfg.spatial_block_k, cfg.random_state) = folds

C4_Witness ==
    /\ CVStarted /\ fold_log = <<>>
    /\ Cardinality(Range(blocks)) >= 2
    /\ Range(y_labeled) = {0, 1}

\* C5: the table has height*width rows, row i carries row = i div width and
\* col = i mod width, and every feature column holds at i the value of its
\* raster at that cell
C5_ShapeInvariant ==
    FeaturesBuilt =>
        LET h == Height(dem_grid_utm)
            w == Width(dem_grid_utm)
            fl == FeatureList(dem_grid_utm, mrds_utm, cfg.grid_resolution_m)
        IN /\ \A nm \in DOMAIN df_features : Len(df_features[nm]) = h * w
           /\ \A i \in 0..(h * w - 1) :
                /\ df_features["row"][i + 1] = i \div w
                /\ df_features["col"][i + 1] = i % w
                /\ \A q \in DOMAIN fl :
                     df_features[fl[q][2]][i + 1] = fl[q][1][(i \div w) + 1][(i % w) + 1]

C5_Witness ==
    /\ FeaturesBuilt
    /\ Height(dem_grid_utm) >= 2
    /\ Width(dem_grid_utm) >= 2
    /\ Len(df_features["row"]) = Height(dem_grid_utm) * Width(dem_grid_utm)

PrevRun == run_log[Len(run_log)]

KeptRows == nan_drop(df_features, feature_names, labeled_mask, y_labeled)

\* C7: with fewer than 2 classes among the labeled rows left by the NaN-drop,
\* train_rf raises InsufficientLabelsError, fits nothing and returns nothing
C7_InsufficientLabels ==
    (TrainRan /\ Cardinality(Range(KeptRows.y)) < 2) =>
        /\ result = <<>>
        /\ \A q \in DOMAIN fit_calls : fit_calls[q].by # "train_rf"

\* C8: a fold whose training rows carry fewer than 2 classes is skipped: no
\* report and no confusion matrix is recorded for it
C8_DegenerateFoldSkipped ==
    \A f \in DOMAIN fold_log :
        Cardinality(Range(Select(y_labeled, fold_log[f].train_mask))) < 2
            => ~fold_log[f].recorded

SmoteFailed == cfg.smote_enabled /\ (KeptRows.y = <<>> \/ smote_fails(KeptRows.X, KeptRows.y))

\* C9: when the oversampling is enabled and fails, train_rf logs a warning
\* and hands the fit exactly the rows and labels left by the NaN-drop; with
\* at least one such row it returns its TrainResult
C9_SmoteRecovered ==
    (TrainRan /\ SmoteFailed) =>
        /\ warnings # <<>>
        /\ \E q \in DOMAIN fit_calls :
              /\ fit_calls[q].by = "train_rf"
              /\ fit_calls[q].X = KeptRows.X
              /\ fit_calls[q].y = KeptRows.y
        /\ KeptRows.y # <<>> => result # <<>>

C9_Witness ==
    /\ TrainRan /\ SmoteFailed
    /\ result # <<>>
    /\ Cardinality(Range(KeptRows.y)) = 2
    /\ warnings # <<>>

PGColumn(q) == [p \in DOMAIN pg_X |-> pg_X[p][q]]

\* C10: in a column that has a finite value, predict_full_grid puts the
\* median of the finite values in place of every NaN, +inf and -inf, so the
\* matrix given to the classifier has no non-finite entry there
C10_ImputedFinite ==
    pg_out # <<>> =>
        \A q \in DOMAIN pg_X[1] :
            (\E p \in DOMAIN pg_X : isfinite(pg_X[p][q])) =>
                \A p \in DOMAIN pg_X :
                    /\ isfinite(pg_out[p][q])
                    /\ pg_out[p][q] = IF isfinite(pg_X[p][q]) THEN pg_X[p][q]
                                      ELSE finite_median(PGColumn(q))

\* train_rf returned a model and predict_full_grid has been called on it
PredictRan == result # <<>> /\ pc \notin {"train", "predict"}

\* share of the positive class among the votes at feature vector x, in percent
ProbaPositive(model, x) ==
    (100 * Votes(model, x, 1))
    \div SumSeq([q \in DOMAIN model.classes |-> Votes(model, x, model.classes[q])])

\* C11: for every model train_rf returns, predict_full_grid returns without
\* error one probability of the positive class per FeatureTable row: height *
\* width entries, entry i being the score of grid cell (i div width, i mod width)
C11_OneProbaPerRow ==
    PredictRan =>
        LET h == Height(dem_grid_utm)
            w == Width(dem_grid_utm)
            X_imp == impute_full_grid(ToMatrix(df_features, feature_names))
        IN /\ error = ""
           /\ Len(proba) = h * w
           /\ \A i \in 0..(h * w - 1) :
                /\ df_features["row"][i + 1] = i \div w
                /\ df_features["col"][i + 1] = i % w
                /\ proba[i + 1] = ProbaPositive(result[1].model, X_imp[i + 1])

\* spatial_block_cv has returned its CVResult
CVReturned == "cv" \in Range(steps)

\* rows of fold f on the test side and on the train side, from the block ids
FoldTestRows(f) == {p \in DOMAIN blocks : blocks[p] \in Range(fold_log[f].fold_blocks)}
FoldTrainRows(f) == DOMAIN blocks \ FoldTestRows(f)
FoldNonDegenerate(f) == FoldTestRows(f) # {} /\ FoldTrainRows(f) # {}

\* C12: a fold is skipped exactly when its test rows or its train rows are
\* empty, and skipping raises nothing; a report and a confusion matrix are
\* recorded for a fold exactly when both sides are non-empty, so that the
\* returned lists have the same length, the number of non-degenerate folds,
\* which is at most k
C12_RecordedIffNonDegenerate ==
    /\ \A f \in DOMAIN fold_log :
          /\ fold_log[f].skipped <=> ~FoldNonDegenerate(f)
          /\ fold_log[f].recorded => FoldNonDegenerate(f)
          /\ (FoldNonDegenerate(f) /\ (f < Len(fold_log) \/ error = ""))
                => fold_log[f].recorded
          /\ (fold_log[f].skipped /\ f = Len(fold_log) /\ ~CVReturned) => error = ""
    /\ Len(reports) = Cardinality({f \in DOMAIN fold_log : fold_log[f].recorded})
    /\ Len(cms) = Len(reports)
    /\ CVReturned =>
          /\ Len(fold_log) = cfg.spatial_block_k
          /\ Len(reports) = Cardinality({f \in DOMAIN fold_log : FoldNonDegenerate(f)})
          /\ Len(reports) <= cfg.spatial_block_k

C12_Witness ==
    /\ CVReturned
    /\ \E f \in DOMAIN fold_log : fold_log[f].skipped
    /\ \E f \in DOMAIN fold_log : fold_log[f].recorded
    /\ Len(reports) = Len(cms)
    /\ Len(reports) < cfg.spatial_block_k

\* the CVResult returned by spatial_block_cv (line 71): its two fields
CVResult == [reports |-> reports, confusion_matrices |-> cms]

SkippedFolds == Cardinality({f \in DOMAIN fold_log : fold_log[f].skipped})

\* C13: the returned CVResult carries, besides the reports and the matrices,
\* a field holding the number of folds skipped for an empty side, and that
\* number plus the number of recorded reports is k
C13_SkippedCountExposed ==
    CVReturned =>
        \E fld \in DOMAIN CVResult \ {"reports", "confusion_matrices"} :
            /\ CVResult[fld] = SkippedFolds
            /\ CVResult[fld] + Len(CVResult.reports) = cfg.spatial_block_k

\* positions of the proximity feature in the feature-name list
ProximityAt == {q \in DOMAIN feature_names : feature_names[q] = "dist_to_ree_m"}

\* C14: with an empty PointSet neither the feature-name list nor the table has
\* a dist_to_ree_m column; with a non-empty one the column is in the table and
\* its name occurs once in the list, last, after the three terrain features
C14_ProximityOmitted ==
    FeaturesBuilt =>
        /\ mrds_utm = {} =>
              /\ ProximityAt = {}
              /\ "dist_to_ree_m" \notin DOMAIN df_features
              /\ feature_names = <<"slope_deg", "aspect_deg", "edge_density">>
        /\ mrds_utm # {} =>
              /\ ProximityAt = {Len(feature_names)}
              /\ "dist_to_ree_m" \in DOMAIN df_features
              /\ feature_names = <<"slope_deg", "aspect_deg", "edge_density", "dist_to_ree_m">>

C14_Witness ==
    /\ FeaturesBuilt
    /\ mrds_utm = {}
    /\ DOMAIN df_features = {"slope_deg", "aspect_deg", "edge_density", "row", "col"}

RasterShape(g) == <<Height(g), Width(g)>>

\* some raster of the list has another (height, width) than the first one
ShapesDiffer == \E q \in DOMAIN fs_in : RasterShape(fs_in[q][1]) # RasterShape(fs_in[1][1])

TrainReturned == tr_out # <<>> /\ tr_out[1].result # <<>>

\* the labeled rows of the call left by the NaN-drop
TrainKept ==
    nan_drop(tr_in[1].df, tr_in[1].feature_names, tr_in[1].labeled_mask, tr_in[1].y)

\* cell (a, b) of a confusion matrix, 0 for a label the matrix does not have
CMCell(cm, a, b) == IF <<a, b>> \in DOMAIN cm THEN cm[<<a, b>>] ELSE 0

\* C16: predicting with the returned model on the labeled rows left by the
\* NaN-drop reproduces the stored confusion matrix: its total is the number
\* of those rows and each cell is the count of (true label, predicted class)
\* over them, with the oversampling enabled or not
C16_RoundTrip ==
    TrainReturned =>
        LET res == tr_out[1].result[1]
            pred == rf_predict(res.model, TrainKept.X)
        IN /\ CMCell(res.conf_matrix, 0, 0) + CMCell(res.conf_matrix, 0, 1)
              + CMCell(res.conf_matrix, 1, 0) + CMCell(res.conf_matrix, 1, 1)
              = Len(TrainKept.y)
           /\ \A a \in {0, 1}, b \in {0, 1} :
                CMCell(res.conf_matrix, a, b)
                = Cardinality({p \in DOMAIN pred : TrainKept.y[p] = a /\ pred[p] = b})

\* the 10 x 10 scenario with its occurrence at cell (5, 5), blocks assigned
ScenarioBlocks ==
    /\ CVStarted
    /\ Height(dem_grid_utm) = 10 /\ Width(dem_grid_utm) = 10
    /\ mrds_utm = {5 * 10 + 5}
    /\ cfg.spatial_block_k = 2 /\ cfg.random_state = 42

BlockSize(b) == Count(blocks, b)

\* C17 as stated: in the scenario the partitioner yields exactly 4 non-empty
\* blocks of roughly 25 cells each, which together cover the 100 grid cells
C17_FourBlocksOf25 ==
    ScenarioBlocks =>
        /\ Cardinality(Range(blocks)) = 4
        /\ Len(blocks) = 100
        /\ \A b \in Range(blocks) : BlockSize(b) >= 20 /\ BlockSize(b) <= 30

\* C17 amended: in the scenario the partitioner gives a block id in 0..3 to
\* every labeled cell and to no other cell, so there are between 1 and 4
\* non-empty blocks and their sizes add up to the number of labeled cells
\* (ones plus zeros), which is less than the 100 grid cells
C17_BlocksOverLabeled ==
    (CVStarted /\ Height(dem_grid_utm) = 10 /\ Width(dem_grid_utm) = 10) =>
        /\ Len(blocks) = Count(y, 1) + Count(y, 0)
        /\ Len(blocks) < 100
        /\ Range(blocks) \subseteq 0..3
        /\ Cardinality(Range(blocks)) >= 1 /\ Cardinality(Range(blocks)) <= 4
        /\ SumSeq([b \in 1..4 |-> BlockSize(b - 1)]) = MaskSum(labeled_mask)

C17_Witness ==
    /\ ScenarioBlocks
    /\ Count(y, 1) >= 5
    /\ Count(y, 0) = Count(y, 1)
    /\ Len(blocks) = 2 * Count(y, 1)

\* the labeled feature rows and labels whose block is outside the given fold
RowsOutside(fold_blocks) ==
    LET outside == [p \in DOMAIN blocks |-> blocks[p] \notin Range(fold_blocks)]
    IN [X |-> Select(Select(ToMatrix(df_features, feature_names), labeled_mask), outside),
        y |-> Select(y_labeled, outside)]

\* what a step taken inside spatial_block_cv or train_rf leaves alone
InputsUntouched ==
    /\ df_features' = df_features
    /\ feature_names' = feature_names
    /\ labeled_mask' = labeled_mask
    /\ y' = y

\* a fit made by a step of the fold loop is the only fit of the step, with
\* the configured seed, on the rows outside the blocks of the fold at hand
FoldFitIsFresh ==
    (pc = "fold" /\ Len(fit_calls') > Len(fit_calls)) =>
        /\ Len(fit_calls') = Len(fit_calls) + 1
        /\ fit_calls'[Len(fit_calls')].by = "spatial_block_cv"
        /\ fit_calls'[Len(fit_calls')].random_state = cfg.random_state
        /\ fit_calls'[Len(fit_calls')].X = RowsOutside(folds[fold_i]).X
        /\ fit_calls'[Len(fit_calls')].y = RowsOutside(folds[fold_i]).y

\* C18: no step of the cross-validation (nor of the final fit) changes the
\* FeatureTable, the labeled mask or the LabelVector, and every fold fits a
\* new classifier with the configured seed on exactly the rows outside the
\* fold's own blocks, nothing being carried over from an earlier fold
C18_NoSharedState ==
    [][(pc \in {"cv", "fold", "train"}) => (InputsUntouched /\ FoldFitIsFresh)]_vars

C18_Witness ==
    /\ CVReturned
    /\ Cardinality({q \in DOMAIN fit_calls : fit_calls[q].by = "spatial_block_cv"}) >= 2
    /\ \E q \in DOMAIN fit_calls : fit_calls[q].by = "train_rf"
    /\ \E p \in DOMAIN y : y[p] = -1
    /\ y_labeled = Select(y, labeled_mask)

\* the steps of one run of main(), in the order of its statements
RunOrder == <<"features", "labels", "cv", "fit", "predict", "outputs">>

\* the classifier fits of the run made by the given caller, as positions
FitsBy(who) == {q \in DOMAIN fit_calls : fit_calls[q].by = who}

\* C19: the steps of a run happen once each and in the order feature build,
\* label synthesis, CV, final fit, full-grid prediction; the folds are gone
\* through one after another, in order, before the final fit, which is the
\* last fit of the run and the only one of train_rf
C19_StepOrder ==
    /\ Len(steps) <= Len(RunOrder)
    /\ steps = SubSeq(RunOrder, 1, Len(steps))
    /\ \A f \in DOMAIN fold_log : fold_log[f].fold_blocks = folds[f]
    /\ (fold_log # <<>> \/ blocks # <<>>) => (LabelsBuilt /\ FeaturesBuilt)
    /\ "cv" \in Range(steps) => Len(fold_log) = cfg.spatial_block_k
    /\ pc = "fold" => (Len(fold_log) = fold_i - 1 /\ fold_i <= cfg.spatial_block_k)
    /\ FitsBy("spatial_block_cv") # {} => "labels" \in Range(steps)
    /\ Cardinality(FitsBy("train_rf")) <= 1
    /\ \A q \in FitsBy("train_rf") :
          /\ q = Len(fit_calls)
          /\ "cv" \in Range(steps)
    /\ result # <<>> => "cv" \in Range(steps)
    /\ proba # <<>> => (result # <<>> /\ "fit" \in Range(steps))

C19_Witness ==
    /\ pc = "done"
    /\ steps = RunOrder
    /\ Len(fold_log) >= 2
    /\ Cardinality(FitsBy("spatial_block_cv")) >= 2
    /\ FitsBy("train_rf") = {Len(fit_calls)}

\* C20: the probability surface and the other output files are written only
\* by a run in which reprojection, feature-stack assembly, label synthesis,
\* CV, final fit and prediction have all completed without error; a run that
\* failed in one of them (a failed reprojection first of all) is aborted and
\* has written nothing
C20_NoOutputAfterFailure ==
    /\ error # "" => (pc = "aborted" /\ outputs = <<>>)
    /\ pc = "aborted" => (error # "" /\ outputs = <<>>)
    /\ outputs # <<>> =>
          /\ error = ""
          /\ dem_grid_utm # <<>>
          /\ steps = RunOrder
          /\ result # <<>>
          /\ Len(proba) = Height(dem_grid_utm) * Width(dem_grid_utm)
          /\ outputs[1] = "prospectivity_prob.tif"

C20_Witness ==
    /\ pc = "aborted"
    /\ error = "CRSError"
    /\ dem_grid_utm = <<>>
    /\ outputs = <<>>

HotspotCell(hs) == <<hs.row, hs.col>>

\* C21: top_hotspots_to_geojson returns min(top_k, height*width) hotspots on
\* pairwise distinct cells of the grid, in non-increasing score order; the
\* score of a hotspot is the surface value of its cell, and no cell left out
\* has a higher value than the lowest returned score
C21_TopHotspots ==
    hs_out # <<>> =>
        LET out == hs_out[1]
            P == hs_in[1].proba
            n == Height(P) * Width(P)
            returned == {HotspotCell(out[i]) : i \in DOMAIN out}
        IN /\ Len(out) = Min({hs_in[1].top_k, n})
           /\ \A i, j \in DOMAIN out : i # j => HotspotCell(out[i]) # HotspotCell(out[j])
           /\ \A i, j \in DOMAIN out : i < j => out[i].score >= out[j].score
           /\ \A i \in DOMAIN out :
                 /\ out[i].row \in 0..(Height(P) - 1)
                 /\ out[i].col \in 0..(Width(P) - 1)
                 /\ out[i].score = P[out[i].row + 1][out[i].col + 1]
           /\ out # <<>> =>
                 \A r \in 0..(Height(P) - 1), c \in 0..(Width(P) - 1) :
                     <<r, c>> \notin returned => P[r + 1][c + 1] <= out[Len(out)].score

\* a ranking that leaves cells out, over a surface with a tie and a lower value
C21_Witness ==
    /\ hs_out # <<>>
    /\ Len(hs_out[1]) = 2
    /\ Height(hs_in[1].proba) * Width(hs_in[1].proba) = 4
    /\ hs_out[1][1].score = hs_out[1][2].score
    /\ \E r \in 1..2, c \in 1..2 : hs_in[1].proba[r][c] < hs_out[1][2].score

\* squared distance in metres from the centre of flat cell p (one-based) to
\* the nearest occurrence
Dist2ToOccurrence(p) ==
    LET w == Width(dem_grid_utm)
        r == (p - 1) \div w
        c == (p - 1) % w
    IN Min({((r - (pt \div w)) * (r - (pt \div w)) + (c - (pt % w)) * (c - (pt % w)))
               * cfg.grid_resolution_m * cfg.grid_resolution_m : pt \in mrds_utm})

\* farther than the positive radius from every occurrence, within the
\* exclusion radius of one
InDeadZone(p) ==
    /\ mrds_utm # {}
    /\ Dist2ToOccurrence(p) > positive_radius * positive_radius
    /\ Dist2ToOccurrence(p) <= exclusion_radius * exclusion_radius

LabeledX == Select(ToMatrix(df_features, feature_names), labeled_mask)

\* C22: a cell between the two radii is inside the exclusion mask and outside
\* the positive mask; every cell inside the exclusion mask and outside the
\* positive mask has label -1 and is not a labeled row; every cell labeled 0
\* lies outside the exclusion mask; and the rows of every classifier fit are
\* rows of labeled cells only
C22_DeadZone ==
    LabelsBuilt =>
        /\ \A p \in DOMAIN y : InDeadZone(p) => (ExclFlat[p] /\ ~PosFlat[p])
        /\ \A p \in DOMAIN y : (ExclFlat[p] /\ ~PosFlat[p]) => (y[p] = -1 /\ ~labeled_mask[p])
        /\ \A p \in DOMAIN y : y[p] = 0 => ~ExclFlat[p]
        /\ \A q \in FitsBy("spatial_block_cv") :
              \E f \in DOMAIN fold_log :
                  fit_calls[q].X = Select(LabeledX, fold_log[f].train_mask)
        /\ \A q \in FitsBy("train_rf") :
              SubSeq(fit_calls[q].X, 1, Len(KeptRows.X)) = KeptRows.X

\* a run with a dead-zone cell and a negative cell whose labeled rows were
\* fitted in the cross-validation and in the final training
C22_Witness ==
    /\ LabelsBuilt
    /\ \E p \in DOMAIN y : InDeadZone(p)
    /\ \E p \in DOMAIN y : y[p] = 0
    /\ FitsBy("spatial_block_cv") # {}
    /\ FitsBy("train_rf") # {}

BlocksAssigned == bl_out # <<>>

\* C23: every cell gets a row bin and a column bin in 0..k-1, also when an
\* axis spans fewer than k values; its block id is row_bin*k + col_bin, in
\* 0..k*k-1; cells with the same block id have the same row bin and the same
\* column bin
C23_BinsInRange ==
    BlocksAssigned =>
        LET k == bl_in[1].k
            row_ids == bin_ids(bl_in[1].rows, k)
            col_ids == bin_ids(bl_in[1].cols, k)
            blks == bl_out[1].blocks
        IN /\ DOMAIN blks = DOMAIN bl_in[1].rows
           /\ \A p \in DOMAIN blks :
                 /\ row_ids[p] \in 0..(k - 1)
                 /\ col_ids[p] \in 0..(k - 1)
                 /\ blks[p] = row_ids[p] * k + col_ids[p]
                 /\ blks[p] \in 0..(k * k - 1)
           /\ \A p, q \in DOMAIN blks :
                 blks[p] = blks[q] => (row_ids[p] = row_ids[q] /\ col_ids[p] = col_ids[q])

\* blocks of cells whose rows span fewer than k values while the columns span
\* at least k, with a cell in the last column bin
C23_Witness ==
    /\ BlocksAssigned
    /\ bl_in[1].k = 3
    /\ Cardinality(Range(bl_in[1].rows)) < 3
    /\ Cardinality(Range(bl_in[1].cols)) >= 3
    /\ \E p \in DOMAIN bl_out[1].blocks : bl_out[1].blocks[p] % 3 = 2

\* the number of values below (strictly or not) an edge
CountBelow(vals, e, strict) ==
    Cardinality({p \in DOMAIN vals : IF strict THEN vals[p] < e ELSE vals[p] <= e})

\* edge number j of the k + 1 edges is an empirical j/k quantile of vals, up
\* to one value: fewer than j*n/k + 1 values lie below it and more than
\* j*n/k - 1 lie at or below it
IsQuantileEdge(vals, e, j, k) ==
    /\ CountBelow(vals, e, TRUE) * k < j * Len(vals) + k
    /\ CountBelow(vals, e, FALSE) * k > j * Len(vals) - k

QuantileBins(vals, k) ==
    /\ \A p, q \in DOMAIN vals : vals[p] <= vals[q] => bin_ids(vals, k)[p] <= bin_ids(vals, k)[q]
    /\ \A j \in 1..(k - 1) : IsQuantileEdge(vals, bin_edges(vals, k)[j + 1], j, k)

\* C24: on both axes the bin index is non-decreasing in the row (column)
\* index and the inner bin boundaries are empirical quantiles of the labeled
\* cells' row (column) values, so that the bins share the labeled cells
\* nearly equally
C24_QuantileBins ==
    BlocksAssigned =>
        /\ QuantileBins(bl_in[1].rows, bl_in[1].k)
        /\ QuantileBins(bl_in[1].cols, bl_in[1].k)

FoldsSplit == bl_out # <<>> /\ bl_out[1].folds # <<>>

\* how often block id b occurs in the folds
FoldOccurrences(F, b) ==
    SumSeq([f \in DOMAIN F |-> Cardinality({q \in DOMAIN F[f] : F[f][q] = b})])

\* C25: the k folds partition the distinct block ids that have a labeled
\* cell: every such id occurs in exactly one fold, once; no fold holds any
\* other id; the fold sizes differ by at most 1; a fold is empty only when
\* there are fewer than k such ids
C25_FoldPartition ==
    FoldsSplit =>
        LET F == bl_out[1].folds
            ids == Range(bl_out[1].blocks)
        IN /\ Len(F) = bl_in[1].k
           /\ \A b \in ids : FoldOccurrences(F, b) = 1
           /\ \A f \in DOMAIN F : Range(F[f]) \subseteq ids
           /\ \A f, g \in DOMAIN F : Len(F[f]) - Len(F[g]) \in {-1, 0, 1}
           /\ (\E f \in DOMAIN F : F[f] = <<>>) => Cardinality(ids) < bl_in[1].k

\* folds of unequal size over more block ids than folds
C25_Witness ==
    /\ FoldsSplit
    /\ Cardinality(Range(bl_out[1].blocks)) > bl_in[1].k
    /\ \E f, g \in DOMAIN bl_out[1].folds :
          Len(bl_out[1].folds[f]) = 2 /\ Len(bl_out[1].folds[g]) = 1

\* the folds of the log in which labeled row p is a test row
TestFoldsOf(p) == {f \in DOMAIN fold_log : fold_log[f].test_mask[p]}

\* C26: in every evaluated fold each labeled row is either a train row or a
\* test row, never both; a labeled row is a test row of at most one fold of
\* the run, and of exactly one once the cross-validation has returned
\* without a skipped fold
C26_TrainTestCover ==
    /\ \A f \in DOMAIN fold_log :
          fold_log[f].recorded =>
              /\ DOMAIN fold_log[f].test_mask = DOMAIN blocks
              /\ DOMAIN fold_log[f].train_mask = DOMAIN blocks
              /\ DOMAIN blocks = 1..MaskSum(labeled_mask)
              /\ \A p \in DOMAIN blocks :
                    fold_log[f].test_mask[p] # fold_log[f].train_mask[p]
    /\ \A p \in DOMAIN blocks : Cardinality(TestFoldsOf(p)) <= 1
    /\ (CVReturned /\ SkippedFolds = 0) =>
          \A p \in DOMAIN blocks : Cardinality(TestFoldsOf(p)) = 1

\* a returned cross-validation without a skipped fold, one fold of which
\* holds two blocks
C26_Witness ==
    /\ CVReturned
    /\ SkippedFolds = 0
    /\ Len(fold_log) >= 2
    /\ \E f \in DOMAIN fold_log : Len(fold_log[f].fold_blocks) = 2

\* the flat grid cell (zero-based) of labeled row number q (one-based)
LabeledCell(q) == Where(labeled_mask)[q]

\* the grid cell of the q-th row retained by the NaN-drop
KeptCell(q) == LabeledCell(Where(KeptRows.keep)[q] + 1)

FullX == ToMatrix(df_features, feature_names)

\* C27: once train_rf has been called, the q-th retained feature row and the
\* q-th retained label are those of one grid cell; no retained row has a
\* non-finite value; every labeled row with finite features only is
\* retained; the fit received the retained rows and labels in that order;
\* and the label arrays of the caller are as label synthesis left them
C27_NanDropAligned ==
    (TrainRan /\ LabelsBuilt) =>
        /\ Len(KeptRows.X) = Len(KeptRows.y)
        /\ \A q \in DOMAIN KeptRows.X :
              /\ KeptRows.X[q] = FullX[KeptCell(q) + 1]
              /\ KeptRows.y[q] = y[KeptCell(q) + 1]
              /\ RowFinite(KeptRows.X[q])
        /\ \A q \in 1..MaskSum(labeled_mask) :
              RowFinite(FullX[LabeledCell(q) + 1])
                  => \E q2 \in DOMAIN KeptRows.X : KeptCell(q2) = LabeledCell(q)
        /\ \A c \in FitsBy("train_rf") :
              /\ SubSeq(fit_calls[c].X, 1, Len(KeptRows.X)) = KeptRows.X
              /\ SubSeq(fit_calls[c].y, 1, Len(KeptRows.y)) = KeptRows.y
        /\ Len(y_labeled) = MaskSum(labeled_mask)
        /\ \A q \in DOMAIN y_labeled : y_labeled[q] = y[LabeledCell(q) + 1]
        /\ mrds_utm # {} =>
              y = synthesize_labels(mrds_utm, Height(dem_grid_utm), Width(dem_grid_utm),
                                    cfg.grid_resolution_m, cfg.random_state).y

\* a fit of train_rf after a drop that removed a labeled row standing in
\* front of a retained row with another label
C27_Witness ==
    /\ TrainRan /\ LabelsBuilt
    /\ FitsBy("train_rf") # {}
    /\ \E p, q \in DOMAIN KeptRows.keep :
          /\ p < q
          /\ ~KeptRows.keep[p] /\ KeptRows.keep[q]
          /\ y_labeled[p] # y_labeled[q]

\* C28: every classifier fit of a run, in a fold of the cross-validation or
\* in the final training, receives rows of finite feature values only
C28_NoNonFiniteFit ==
    \A c \in DOMAIN fit_calls : AllFinite(fit_calls[c].X)

\* the values of feature number q in the rows the final fit received
FittedColumnValues(q) ==
    UNION {{fit_calls[c].X[p][q] : p \in DOMAIN fit_calls[c].X} : c \in FitsBy("train_rf")}

\* the feature names and the matrices built from them, in a state
NamesConsistent ==
    /\ FeaturesBuilt =>
          /\ feature_names = SubSeq(FeatureNames, 1, IF mrds_utm = {} THEN 3 ELSE 4)
          /\ "row" \notin Range(feature_names) /\ "col" \notin Range(feature_names)
          /\ Range(feature_names) \cup {"row", "col"} = DOMAIN df_features
    /\ \A c \in DOMAIN fit_calls :
          \A p \in DOMAIN fit_calls[c].X :
              /\ Len(fit_calls[c].X[p]) = Len(feature_names)
              /\ \E cell \in DOMAIN y :
                    \A q \in DOMAIN feature_names :
                        fit_calls[c].X[p][q] = df_features[feature_names[q]][cell]
    /\ result # <<>> =>
          /\ result[1].feature_names = feature_names
          /\ Len(result[1].importance) = Len(feature_names)
          /\ \A q \in DOMAIN feature_names :
                result[1].importance[q] = Cardinality(FittedColumnValues(q)) - 1
    /\ proba # <<>> =>
          proba = predict_full_grid(result[1].model, df_features, result[1].feature_names).proba

\* a step of prediction or of the output section leaves the TrainResult and
\* the name list as they are
ModelKept ==
    pc \in {"predict", "output"} => (result' = result /\ feature_names' = feature_names)

NamesStep == NamesConsistent' /\ ModelKept

\* C29: cross-validation, final training and prediction all work on the
\* columns of the one ordered feature-name list built with the table; the
\* list has no 'row' or 'col' entry; the importance vector has one entry per
\* name, in the order of the list; prediction and the output section modify
\* neither the model nor the list
C29_FeatureNames == [][NamesStep]_vars

\* a finished run with the proximity feature, whose importances differ
\* between features
C29_Witness ==
    /\ pc = "done"
    /\ Len(feature_names) = 4
    /\ FitsBy("spatial_block_cv") # {}
    /\ proba # <<>>
    /\ \E q, q2 \in DOMAIN feature_names : result[1].importance[q] # result[1].importance[q2]

\* C30: a GET /jobs/{job_id} (or GET /jobs/{job_id}/result) answered while
\* the job is created and not deleted never returns 404, and the status
\* endpoint reports the status the background task wrote last
C30_JobVisible ==
    \A r \in DOMAIN responses :
        LET resp == responses[r]
        IN (resp.created /\ resp.stored # "deleted") =>
              /\ resp.endpoint \in {"GET /jobs/{job_id}", "GET /jobs/{job_id}/result"}
                    => resp.code # 404
              /\ resp.endpoint = "GET /jobs/{job_id}"
                    => (resp.code = 200 /\ resp.status = resp.stored)

====
